---- MODULE Spec2Model ----
(***************************************************************************)
(* Model of geocamTiePoint/models.py: the QuadTree tile-generator cache,   *)
(* the reversePts sampling bridge and the three export operations of a     *)
(* QuadTree record (HTML, GeoTIFF, KML).                                   *)
(***************************************************************************)
EXTENDS Integers, Sequences, FiniteSets, TLC

(***************************************************************************)
(* Bounds of the model.                                                    *)
(***************************************************************************)
\* QuadTree rows in the database are 1..NumQuadTrees; id NumQuadTrees + 1 is
\* requested too and has no row.
NumQuadTrees == 2
\* Columns of the world-point matrices handed to reversePts: 0..MaxCols.
MaxCols == 2
\* Exports started in a run of the model: at most MaxExports.
MaxExports == 2

\* The clock runs from second 0 to second MaxSeconds.
MaxSeconds == 1
\* Calls of getImageSizeType in a run of the size-class model: at most
\* MaxSizeCalls.
MaxSizeCalls == 2
\* QuadTree rows the generate methods of an Overlay create in a run of the
\* overlay model: at most MaxGenerated.
MaxGenerated == 3

\* The threads (execution contexts) of the process.
Threads == {"t1", "t2"}
QuadTreeIds == 1..NumQuadTrees
RequestIds == 1..(NumQuadTrees + 1)

VARIABLES
    quadTrees,          \* database table QuadTree: id -> row
    imageDatas,         \* database table ImageData: id -> row (the stored image)
    cachedGeneratorG,   \* the module-level cachedGeneratorG: namespace -> attributes
    pc,                 \* per thread: position in the running method
    loc,                \* per thread: local variables of the running method
    observed,           \* the thread whose completed cache calls are recorded
    hist,               \* the last two completed cache calls of that thread
    rpIn,               \* reversePts: self.transform and the argument toPts
    rpOut,              \* reversePts: what the call returned or raised
    sz,                 \* getImageSizeType: the image width and the calls made
    ovCall,             \* Overlay.generate*QuadTree: the last call and its result
    overlay,            \* database row of the Overlay that owns the quadTrees
    now,                \* the clock (datetime.utcnow()), in ticks
    mem,                \* per thread: the QuadTree instance it has loaded (self)
    ex,                 \* per thread: local variables of the running export
    files,              \* DATA_ROOT/geocamTiePoint/export on disk: path -> content
    storage,            \* archives saved through the file fields' storage
    runs,               \* number of exports started
    watched,            \* the thread whose finished exports are recorded
    exhist              \* the last two finished exports of that thread

cacheVars == <<quadTrees, imageDatas, cachedGeneratorG, pc, loc, observed, hist>>
ptsVars == <<rpIn, rpOut, sz, ovCall>>
exportVars == <<overlay, now, mem, ex, files, storage, runs, watched, exhist>>
vars == <<cacheVars, ptsVars, exportVars>>

(***************************************************************************)
(* Values.                                                                 *)
(***************************************************************************)
\* Python's None where an object is expected.
None == [type |-> "NoneType"]
\* Python's None where a string is expected; no formatted string equals it.
NoneStr == "<None>"

\* A transform definition as Overlay.extras holds it, and the JSON text of it
\* that QuadTree.transform holds ('' for a simple quadTree).
dumps(obj) == "json:" \o obj
loads(text) == SubSeq(text, 6, Len(text))
TransformDicts == {"T1"}
TransformTexts == {""} \cup {dumps(d) : d \in TransformDicts}

ImageModes == {"RGBA", "RGB"}

(***************************************************************************)
(* cachedGeneratorG = threading.local(): attribute access on it goes to    *)
(* the namespace of the calling thread.                                    *)
(***************************************************************************)
SharedNamespace(t) == "global"

ThreadLocal(t) == t

Namespaces == Threads \cup {"global"}

\* getattr(cachedGeneratorG, 'gen', {'key': None, 'value': None})
GetGenAttr(t) ==
    LET ns == cachedGeneratorG[ThreadLocal(t)]
    IN IF ns.hasGen THEN ns.gen ELSE [key |-> NoneStr, value |-> None]

(***************************************************************************)
(* QuadTree.getGeneratorCacheKey                                           *)
(***************************************************************************)
ConstantCacheKey(quadTreeId) == "geocamTiePoint.QuadTreeGenerator"

getGeneratorCacheKey(quadTreeId) ==
    "geocamTiePoint.QuadTreeGenerator." \o ToString(quadTreeId)

(***************************************************************************)
(* QuadTree.convertImageToRgbaIfNeeded: the image row after the call.  The *)
(* converted image is saved to storage; the caller's image object is not    *)
(* rebound.                                                                *)
(***************************************************************************)
\* (variant: the converted image is written but the row keeps its image)
convertWithoutNewImage(row, image) ==
    IF image.mode # "RGBA"
    THEN [row EXCEPT !.writes = @ + 1]
    ELSE row

convertImageToRgbaIfNeeded(row, image) ==
    IF image.mode # "RGBA"
    THEN [row EXCEPT !.mode = "RGBA",
                     !.contentType = "image/png",
                     !.name = "dummy.png",
                     !.writes = @ + 1]
    ELSE row

(***************************************************************************)
(* QuadTree.getImage: the PIL image opened from the stored bits.           *)
(***************************************************************************)
getImage(row) == [mode |-> row.mode, source |-> row.name]

(***************************************************************************)
(* QuadTree.getGenerator: the generator constructed for row q with id.     *)
(***************************************************************************)
AlwaysSimpleGenerator(id, q, image, addr, t) ==
    [type |-> "SimpleQuadTreeGenerator", addr |-> addr, quadTreeId |-> id,
     image |-> image, transform |-> "", builder |-> t]

getGenerator(id, q, image, addr, t) ==
    IF q.transform # ""
    THEN [type |-> "WarpedQuadTreeGenerator", addr |-> addr, quadTreeId |-> id,
          image |-> image, transform |-> loads(q.transform), builder |-> t]
    ELSE [type |-> "SimpleQuadTreeGenerator", addr |-> addr, quadTreeId |-> id,
          image |-> image, transform |-> "", builder |-> t]

(***************************************************************************)
(* Object identity.  A generator is a Python object: its address differs   *)
(* from the address of every object that is still referenced (by a cache   *)
(* entry, by a local variable, or by the recorded calls).                  *)
(***************************************************************************)
AddrOf(obj) == IF obj.type = "NoneType" THEN {} ELSE {obj.addr}

LiveAddrs ==
    UNION ( {AddrOf(cachedGeneratorG[n].gen.value) :
                n \in {m \in DOMAIN cachedGeneratorG : cachedGeneratorG[m].hasGen}}
            \cup {AddrOf(loc[t].result) : t \in Threads}
            \cup {AddrOf(loc[t].cachedGeneratorCopy.value) : t \in Threads}
            \cup {AddrOf(ex[t].gen) : t \in Threads}
            \cup {AddrOf(hist[i].result) : i \in DOMAIN hist} )

NewAddr(t) ==
    <<t, CHOOSE n \in 1..(Cardinality(LiveAddrs) + 1) : <<t, n>> \notin LiveAddrs>>

(***************************************************************************)
(* Local variables of a thread that runs nothing.                          *)
(***************************************************************************)
IdleLoc ==
    [site |-> "idle", quadTreeId |-> 0,
     cachedGeneratorCopy |-> [key |-> NoneStr, value |-> None],
     key |-> NoneStr, q |-> 0, result |-> None]

IdleEx ==
    [kind |-> "none", run |-> 0, self0 |-> None, imgSize |-> "",
     timestamp |-> "", gen |-> None, center |-> <<>>, T_rpc |-> None,
     inputFile |-> "", archive |-> <<>>, log |-> <<>>, mkdirRet |-> 0]

\* The window after thread t completed a call.
Remember(t, call) ==
    IF t # observed THEN hist
    ELSE IF hist = <<>> THEN <<call>>
    ELSE <<hist[Len(hist)], call>>

CallRecord(quadTreeId, heldKey, outcome, result, fetched, built) ==
    [quadTreeId |-> quadTreeId, heldKey |-> heldKey,
     outcome |-> outcome, result |-> result,
     fetched |-> fetched, built |-> built]

\* The window of finished exports after thread t finished one.
RememberExport(t, status, error, after) ==
    LET entry == [kind |-> ex[t].kind, id |-> mem[t].id, status |-> status,
                  error |-> error,
                  log |-> IF status = "attached"
                          THEN Append(ex[t].log, "attached") ELSE ex[t].log,
                  before |-> ex[t].self0, after |-> after,
                  mkdirRet |-> ex[t].mkdirRet]
    IN IF t # watched THEN exhist
       ELSE IF exhist = <<>> THEN <<entry>>
       ELSE <<exhist[Len(exhist)], entry>>

\* An exception leaves the export method: the thread is idle again, the
\* instance self keeps whatever was assigned to it.
ExportRaises(t, error) ==
    /\ pc' = [pc EXCEPT ![t] = "idle"]
    /\ ex' = [ex EXCEPT ![t] = IdleEx]
    /\ exhist' = RememberExport(t, "raised", error, mem[t])

(***************************************************************************)
(* QuadTree.getGeneratorWithCache.  It is called by a tile request of an   *)
(* idle thread, for any id, and by generateHtmlExport (line 292) for       *)
(* self.id.  Lines 228-231 read only the calling thread's namespace and    *)
(* compare; they form one step with the branch taken.  The database read,  *)
(* getGenerator and the store are steps of their own.                      *)
(***************************************************************************)
AtCallSite(t, quadTreeId) ==
    \/ pc[t] = "idle"
    \/ pc[t] = "html_getGenerator" /\ quadTreeId = mem[t].id

\* line 239 / line 292: the value goes back to the caller
GwcReturns(t, site, value) ==
    IF site = "idle"
    THEN /\ pc' = [pc EXCEPT ![t] = "idle"]
         /\ UNCHANGED <<ex, exhist>>
    ELSE /\ pc' = [pc EXCEPT ![t] = "html_archive"]
         /\ ex' = [ex EXCEPT ![t].gen = value,
                             ![t].log = Append(@, "generator-acquired")]
         /\ UNCHANGED exhist

\* an exception goes back to the caller, which does not catch it
GwcRaises(t, site, error) ==
    IF site = "idle"
    THEN /\ pc' = [pc EXCEPT ![t] = "idle"]
         /\ UNCHANGED <<ex, exhist>>
    ELSE ExportRaises(t, error)

\* lines 228-230: the locals after reading the held entry and computing the key
Lookup(t, quadTreeId) ==
    [IdleLoc EXCEPT !.site = pc[t],
                    !.quadTreeId = quadTreeId,
                    !.cachedGeneratorCopy = GetGenAttr(t),
                    !.key = getGeneratorCacheKey(quadTreeId)]

\* lines 228-233, 239: the keys are equal; return the held value
GwcHit(t, quadTreeId) ==
    /\ AtCallSite(t, quadTreeId)
    /\ LET l == Lookup(t, quadTreeId)
       IN /\ l.cachedGeneratorCopy.key = l.key
          /\ hist' = Remember(t, CallRecord(quadTreeId,
                                  l.cachedGeneratorCopy.key, "returned",
                                  l.cachedGeneratorCopy.value, FALSE, FALSE))
          /\ GwcReturns(t, l.site, l.cachedGeneratorCopy.value)
    /\ UNCHANGED <<quadTrees, imageDatas, cachedGeneratorG, loc, observed, ptsVars>>
    /\ UNCHANGED <<overlay, now, mem, files, storage, runs, watched>>

\* (variant: a miss drops the held entry before it looks the row up)
GwcMissDroppingEntry(t, quadTreeId) ==
    /\ AtCallSite(t, quadTreeId)
    /\ LET l == Lookup(t, quadTreeId)
       IN /\ l.cachedGeneratorCopy.key # l.key
          /\ IF quadTreeId \in DOMAIN quadTrees
             THEN /\ loc' = [loc EXCEPT ![t] = [l EXCEPT !.q = quadTreeId]]
                  /\ pc' = [pc EXCEPT ![t] = "gwc_getGenerator"]
                  /\ UNCHANGED <<hist, ex, exhist>>
             ELSE /\ hist' = Remember(t, CallRecord(quadTreeId,
                                          l.cachedGeneratorCopy.key, "Http404",
                                          None, FALSE, FALSE))
                  /\ GwcRaises(t, l.site, "Http404")
                  /\ UNCHANGED loc
    /\ cachedGeneratorG' = [cachedGeneratorG EXCEPT ![ThreadLocal(t)] =
          [hasGen |-> FALSE, gen |-> None]]
    /\ UNCHANGED <<quadTrees, imageDatas, observed, ptsVars>>
    /\ UNCHANGED <<overlay, now, mem, files, storage, runs, watched>>

\* lines 228-231, 234-236: the keys differ; get_object_or_404 finds the row
\* or raises Http404
GwcMiss(t, quadTreeId) ==
    /\ AtCallSite(t, quadTreeId)
    /\ LET l == Lookup(t, quadTreeId)
       IN /\ l.cachedGeneratorCopy.key # l.key
          /\ IF quadTreeId \in DOMAIN quadTrees
             THEN /\ loc' = [loc EXCEPT ![t] = [l EXCEPT !.q = quadTreeId]]
                  /\ pc' = [pc EXCEPT ![t] = "gwc_getGenerator"]
                  /\ UNCHANGED <<hist, ex, exhist>>
             ELSE /\ hist' = Remember(t, CallRecord(quadTreeId,
                                          l.cachedGeneratorCopy.key, "Http404",
                                          None, FALSE, FALSE))
                  /\ GwcRaises(t, l.site, "Http404")
                  /\ UNCHANGED loc
    /\ UNCHANGED <<quadTrees, imageDatas, cachedGeneratorG, observed, ptsVars>>
    /\ UNCHANGED <<overlay, now, mem, files, storage, runs, watched>>

\* line 237: q.getGenerator(), with getImage (lines 213-220) inside it
GwcGetGenerator(t) ==
    /\ pc[t] = "gwc_getGenerator"
    /\ LET q == quadTrees[loc[t].q]
           row == imageDatas[q.imageData]
       IN IF row.readable
          THEN /\ imageDatas' = [imageDatas EXCEPT ![q.imageData] =
                      convertImageToRgbaIfNeeded(row, getImage(row))]
               /\ loc' = [loc EXCEPT ![t].result =
                      getGenerator(loc[t].q, q, getImage(row), NewAddr(t), t)]
               /\ pc' = [pc EXCEPT ![t] = "gwc_store"]
               /\ UNCHANGED <<hist, ex, exhist>>
          ELSE /\ hist' = Remember(t,
                      CallRecord(loc[t].quadTreeId,
                          loc[t].cachedGeneratorCopy.key, "IOError", None, TRUE, FALSE))
               /\ loc' = [loc EXCEPT ![t] = IdleLoc]
               /\ GwcRaises(t, loc[t].site, "IOError")
               /\ UNCHANGED imageDatas
    /\ UNCHANGED <<quadTrees, cachedGeneratorG, observed, ptsVars>>
    /\ UNCHANGED <<overlay, now, mem, files, storage, runs, watched>>

\* (variant: the entry is not stored)
GwcReturnWithoutStore(t) ==
    /\ pc[t] = "gwc_store"
    /\ hist' = Remember(t, CallRecord(loc[t].quadTreeId,
                      loc[t].cachedGeneratorCopy.key, "returned", loc[t].result,
                      TRUE, TRUE))
    /\ loc' = [loc EXCEPT ![t] = IdleLoc]
    /\ GwcReturns(t, loc[t].site, loc[t].result)
    /\ UNCHANGED <<quadTrees, imageDatas, cachedGeneratorG, observed, ptsVars>>
    /\ UNCHANGED <<overlay, now, mem, files, storage, runs, watched>>

\* (variant: the new generator is stored under the key that was held)
GwcStoreUnderHeldKey(t) ==
    /\ pc[t] = "gwc_store"
    /\ cachedGeneratorG' = [cachedGeneratorG EXCEPT ![ThreadLocal(t)] =
          [hasGen |-> TRUE,
           gen |-> [key |-> loc[t].cachedGeneratorCopy.key,
                    value |-> loc[t].result]]]
    /\ hist' = Remember(t,
                  CallRecord(loc[t].quadTreeId,
                      loc[t].cachedGeneratorCopy.key, "returned", loc[t].result,
                      TRUE, TRUE))
    /\ loc' = [loc EXCEPT ![t] = IdleLoc]
    /\ GwcReturns(t, loc[t].site, loc[t].result)
    /\ UNCHANGED <<quadTrees, imageDatas, observed, ptsVars>>
    /\ UNCHANGED <<overlay, now, mem, files, storage, runs, watched>>

\* lines 238-239: store the new entry and return the generator
GwcStore(t) ==
    /\ pc[t] = "gwc_store"
    /\ cachedGeneratorG' = [cachedGeneratorG EXCEPT ![ThreadLocal(t)] =
          [hasGen |-> TRUE,
           gen |-> [key |-> loc[t].key, value |-> loc[t].result]]]
    /\ hist' = Remember(t,
                  CallRecord(loc[t].quadTreeId,
                      loc[t].cachedGeneratorCopy.key, "returned", loc[t].result,
                      TRUE, TRUE))
    /\ loc' = [loc EXCEPT ![t] = IdleLoc]
    /\ GwcReturns(t, loc[t].site, loc[t].result)
    /\ UNCHANGED <<quadTrees, imageDatas, observed, ptsVars>>
    /\ UNCHANGED <<overlay, now, mem, files, storage, runs, watched>>

(***************************************************************************)
(* Initial state: the rows exist, no thread has touched the cache.         *)
(***************************************************************************)
NewQuadTree(imageData, transform) ==
    [imageData |-> imageData, transform |-> transform,
     htmlExportName |-> NoneStr, htmlExport |-> NoneStr,
     kmlExportName |-> NoneStr, kmlExport |-> NoneStr,
     geotiffExportName |-> NoneStr, geotiffExport |-> NoneStr,
     lastModifiedTime |-> 0]

\* The stored images a row may hold: an RGBA png, an image of another mode
\* (not yet migrated), or bits that PIL cannot open.
ImageRows ==
    { [mode |-> "RGBA", contentType |-> "image/png", name |-> "upload.png",
       readable |-> TRUE, writes |-> 0],
      [mode |-> "RGB", contentType |-> "image/jpeg", name |-> "upload.jpg",
       readable |-> TRUE, writes |-> 0],
      [mode |-> "RGB", contentType |-> "image/jpeg", name |-> "broken.jpg",
       readable |-> FALSE, writes |-> 0] }

\* Odd ids are simple quadTrees (created by generateUnalignedQuadTree), even
\* ids are warped ones (created by generateAlignedQuadTree).
InitialTransform(i) == IF i % 2 = 1 THEN "" ELSE dumps("T1")

\* reversePts is not running.
NoCall == [called |-> FALSE]

\* getImageSizeType has not been called.
NoSizeCalls == [width |-> 0, calls |-> <<>>]

\* No generate method of the Overlay has been called.
NoOverlayCall == [method |-> "none"]

\* The Overlay row: the image is 2000 x 1000, the transform has been fitted,
\* quadTree 1 is the unaligned and quadTree 2 the aligned one.
InitialOverlay ==
    [name |-> "foo.png", unalignedQuadTree |-> 1, alignedQuadTree |-> 2,
     extras |-> [imageSize |-> <<2000, 1000>>, transform |-> "T1"]]

\* The same overlay with an image of width w.
OverlayOfWidth(w) == [InitialOverlay EXCEPT !.extras.imageSize = <<w, 1000>>]

\* No export has been requested.
NoExports ==
    /\ overlay = InitialOverlay
    /\ now = 0
    /\ mem = [t \in Threads |-> None]
    /\ ex = [t \in Threads |-> IdleEx]
    /\ files = <<>>
    /\ storage = <<>>
    /\ runs = 0
    /\ watched = "nobody"
    /\ exhist = <<>>

InitCache ==
    /\ rpIn = NoCall
    /\ rpOut = NoCall
    /\ sz = NoSizeCalls
    /\ ovCall = NoOverlayCall
    /\ NoExports
    /\ quadTrees = [i \in QuadTreeIds |-> NewQuadTree(i, InitialTransform(i))]
    /\ imageDatas \in [QuadTreeIds -> ImageRows]
    /\ cachedGeneratorG = [n \in Namespaces |-> [hasGen |-> FALSE, gen |-> None]]
    /\ pc = [t \in Threads |-> "idle"]
    /\ loc = [t \in Threads |-> IdleLoc]
    /\ observed = "t1"
    /\ hist = <<>>

NextCache ==
    \/ \E t \in Threads, quadTreeId \in RequestIds : GwcHit(t, quadTreeId)
    \/ \E t \in Threads, quadTreeId \in RequestIds : GwcMiss(t, quadTreeId)
    \/ \E t \in Threads : GwcGetGenerator(t)
    \/ \E t \in Threads : GwcStore(t)

SpecCache == InitCache /\ [][NextCache]_vars

(***************************************************************************)
(* The transform module (geocamTiePoint.transform), as the reversePts and  *)
(* generateGeotiffExport code uses it: lonLatToMeters / metersToLatLon     *)
(* convert between degrees and projected meters, makeTransform builds a    *)
(* handle from a transform definition, and the handle maps pixels to       *)
(* meters (forward) and meters to pixels (reverse).  reverse raises a      *)
(* domain error for a point outside the transform's valid domain.          *)
(***************************************************************************)
lonLatToMeters(lonlat) == <<lonlat[1] * 111319, lonlat[2] * 111325>>

metersToLatLon(meters) == <<meters[1] \div 111319, meters[2] \div 111325>>

makeTransform(transformDict) ==
    IF transformDict = "T1"
    THEN [scale |-> 1000, tx |-> 0, ty |-> 0]
    ELSE [scale |-> 1000, tx |-> 111319000, ty |-> 0]

tformForward(tform, pixel) ==
    <<pixel[1] * tform.scale + tform.tx, pixel[2] * tform.scale + tform.ty>>

tformReverse(tform, meters) ==
    IF meters[1] >= tform.tx /\ meters[2] >= tform.ty
    THEN [raised |-> FALSE,
          value |-> <<(meters[1] - tform.tx) \div tform.scale,
                      (meters[2] - tform.ty) \div tform.scale>>]
    ELSE [raised |-> TRUE,
          exc |-> [type |-> "DomainError", args |-> <<meters>>]]

(***************************************************************************)
(* numpy values: a 2 x n matrix is the sequence of its n columns.          *)
(***************************************************************************)
ndarray(columns) == [type |-> "ndarray", columns |-> columns]

column_stack(pixels, newCol) == ndarray(Append(pixels.columns, newCol))

(***************************************************************************)
(* QuadTree.reversePts, lines 270-281: the loop over the columns of toPts, *)
(* with the pixels accumulated so far.                                     *)
(***************************************************************************)
RECURSIVE reversePtsSubstituting(_, _, _)
reversePtsSubstituting(tform, columns, pixels) ==
    IF columns = <<>>
    THEN [kind |-> "return", value |-> pixels]
    ELSE LET lonlat == SubSeq(Head(columns), 1, 2)
             rev == tformReverse(tform, lonLatToMeters(lonlat))
             newCol == IF rev.raised THEN <<0, 0>> ELSE rev.value
         IN reversePtsSubstituting(tform, Tail(columns),
                IF pixels.type = "NoneType" THEN ndarray(<<newCol>>)
                ELSE column_stack(pixels, newCol))

RECURSIVE reversePtsLoop(_, _, _)
reversePtsLoop(tform, columns, pixels) ==
    IF columns = <<>>
    THEN [kind |-> "return", value |-> pixels]
    ELSE LET lonlat == SubSeq(Head(columns), 1, 2)
             gmap_meters == lonLatToMeters(lonlat)
             rev == tformReverse(tform, gmap_meters)
         IN IF rev.raised
            THEN [kind |-> "raise", exc |-> rev.exc]
            ELSE LET newCol == rev.value
                 IN reversePtsLoop(tform, Tail(columns),
                        IF pixels.type = "NoneType" THEN ndarray(<<newCol>>)
                        ELSE column_stack(pixels, newCol))

\* QuadTree.reversePts, lines 261-281.  json.loads('') raises ValueError.
reversePts(transform, toPts) ==
    IF transform = ""
    THEN [kind |-> "raise", exc |-> [type |-> "ValueError", args |-> <<>>]]
    ELSE reversePtsLoop(makeTransform(loads(transform)), toPts, None)

\* The world points used as columns: (lon, lat, alt) in degrees and meters.
WorldPoints == {-1, 0, 2} \X {0, 1} \X {0, 7}

WorldMatrices == UNION {[1..n -> WorldPoints] : n \in 0..MaxCols}

\* A caller (the RPC fitter) calls self.reversePts(toPts).
CallReversePts ==
    /\ rpIn.called
    /\ ~rpOut.called
    /\ rpOut' = [called |-> TRUE, outcome |-> reversePts(rpIn.transform, rpIn.toPts)]
    /\ UNCHANGED <<cacheVars, rpIn, sz, ovCall, exportVars>>

InitPts ==
    /\ NoExports
    /\ quadTrees = [i \in QuadTreeIds |-> NewQuadTree(i, InitialTransform(i))]
    /\ imageDatas \in [QuadTreeIds -> {r \in ImageRows : r.mode = "RGBA"}]
    /\ cachedGeneratorG = [n \in Namespaces |-> [hasGen |-> FALSE, gen |-> None]]
    /\ pc = [t \in Threads |-> "idle"]
    /\ loc = [t \in Threads |-> IdleLoc]
    /\ observed = "t1"
    /\ hist = <<>>
    /\ \E tr \in TransformTexts, m \in WorldMatrices :
          rpIn = [called |-> TRUE, transform |-> tr, toPts |-> m]
    /\ rpOut = NoCall
    /\ sz = NoSizeCalls
    /\ ovCall = NoOverlayCall

NextPts == CallReversePts

SpecPts == InitPts /\ [][NextPts]_vars

(***************************************************************************)
(* The exports of a QuadTree.  A request thread loads the QuadTree it      *)
(* works on (the instance self of the export methods) and runs exports on  *)
(* that instance, one at a time.  The external tools (RPC fit, raster      *)
(* reprojection, gdal2tiles) either do their work or raise.                *)
(***************************************************************************)
ExportKinds == {"html", "kml", "geotiff"}

NameField(kind) == kind \o "ExportName"

FileField(kind) == kind \o "Export"

\* line 53: the upload_to of the three file fields
getNewExportFileName(filename) == "geocamTiePoint/export/" \o filename

\* settings.DATA_ROOT + 'geocamTiePoint/export/' + name
ExportPath(name) == "/data/geocamTiePoint/export/" \o name

\* Overlay.getSlug: the image name without its extension, every character
\* that is not a word character replaced by '_'
getSlug(o) == SubSeq(o.name, 1, Len(o.name) - 4)

\* Overlay.getExportName
getExportName(o) == "mapfasten-" \o getSlug(o)

\* (variant: a width of 1200 is small too)
getImageSizeTypeInclusive(o) ==
    IF o.extras.imageSize[1] <= 1200 THEN "small" ELSE "large"

\* QuadTree.getImageSizeType
getImageSizeType(o) == IF o.extras.imageSize[1] < 1200 THEN "small" ELSE "large"

Pad2(n) == IF n < 10 THEN "0" \o ToString(n) ELSE ToString(n)

\* now.strftime('%Y-%m-%d-%H%M%S-UTC'); the clock starts at 2024-01-02 03:04:05
strftime(seconds) == "2024-01-02-0304" \o Pad2(5 + seconds) \o "-UTC"

\* (variant: the name is used as it is)
NoReplace(name) == name

\* str.replace('.tar.gz', '') on an artifact name
StripTarGz(name) ==
    IF Len(name) >= 7 /\ SubSeq(name, Len(name) - 6, Len(name)) = ".tar.gz"
    THEN SubSeq(name, 1, Len(name) - 7)
    ELSE name

\* Storage.get_available_name: a taken name gets _1, _2, ... before its
\* extension
Numbered(name, k) ==
    SubSeq(name, 1, Len(name) - 3) \o "_" \o ToString(k) \o ".gz"

AvailableName(name) ==
    IF name \notin DOMAIN storage THEN name
    ELSE LET k == CHOOSE k \in 1..(Cardinality(DOMAIN storage) + 1) :
                    /\ Numbered(name, k) \notin DOMAIN storage
                    /\ \A j \in 1..(k - 1) : Numbered(name, j) \in DOMAIN storage
         IN Numbered(name, k)

\* T_rpc.getVrtMetadata()
getVrtMetadata(T_rpc) == [rpcOf |-> T_rpc]

\* The instance loaded from row id, and the row an instance is saved as.
Instance(id) == [type |-> "QuadTree", id |-> id] @@ quadTrees[id]

RowOf(inst) == [f \in DOMAIN inst \ {"type", "id"} |-> inst[f]]

\* What the storage holds under a path: the bytes, and which artifact they are.
Stored(id, kind, name, content) ==
    [quadTree |-> id, kind |-> kind, name |-> name, content |-> content]

\* (variant: the save records the name under every kind's name field)
FieldFileSaveAllKinds(t, kind, name, content) ==
    LET path == AvailableName(getNewExportFileName(name))
        inst == [f \in DOMAIN mem[t] |->
                    IF f \in {NameField(k) : k \in ExportKinds} THEN name
                    ELSE IF f = FileField(kind) THEN path
                    ELSE IF f = "lastModifiedTime" THEN now
                    ELSE mem[t][f]]
    IN /\ storage' = storage @@ (path :> Stored(inst.id, kind, name, content))
       /\ mem' = [mem EXCEPT ![t] = inst]
       /\ quadTrees' = [quadTrees EXCEPT ![inst.id] = RowOf(inst)]

\* self.<kind>ExportName = name; self.<kind>Export.save(name, content): the
\* storage keeps the content under a name nothing is stored under, the file
\* field takes that name, and QuadTree.save (lines 189-191) writes the whole
\* instance to its row.
FieldFileSave(t, kind, name, content) ==
    LET path == AvailableName(getNewExportFileName(name))
        inst == [mem[t] EXCEPT ![NameField(kind)] = name,
                               ![FileField(kind)] = path,
                               !.lastModifiedTime = now]
    IN /\ storage' = storage @@ (path :> Stored(inst.id, kind, name, content))
       /\ mem' = [mem EXCEPT ![t] = inst]
       /\ quadTrees' = [quadTrees EXCEPT ![inst.id] = RowOf(inst)]

\* The export method returns.
ExportReturns(t) ==
    /\ pc' = [pc EXCEPT ![t] = "idle"]
    /\ ex' = [ex EXCEPT ![t] = IdleEx]
    /\ exhist' = RememberExport(t, "attached", "", mem'[t])

\* The first lines of an export method: only locals are assigned.
ExportBegins(t, kind) ==
    [IdleEx EXCEPT !.kind = kind, !.run = runs + 1, !.self0 = mem[t],
                   !.imgSize = getImageSizeType(overlay)]

CanExport(t) ==
    /\ pc[t] = "idle"
    /\ mem[t] # None
    /\ runs < MaxExports

\* the clock advances by a second
Tick ==
    /\ now < MaxSeconds
    /\ now' = now + 1
    /\ UNCHANGED <<cacheVars, ptsVars, overlay, mem, ex, files, storage, runs,
                   watched, exhist>>

\* lines 560-563, and the caller's save: the transform is fitted again from
\* the tie points and stored on the overlay
RefitTransform == "T2"

UpdateAlignment ==
    /\ overlay.extras.transform # RefitTransform
    /\ overlay' = [overlay EXCEPT !.extras.transform = RefitTransform]
    /\ UNCHANGED <<cacheVars, ptsVars, now, mem, ex, files, storage, runs,
                   watched, exhist>>

\* lines 539-558: the caller fetches the QuadTree the export runs on
LoadQuadTree(t, id) ==
    /\ pc[t] = "idle"
    /\ mem[t] = None
    /\ id \in DOMAIN quadTrees
    /\ mem' = [mem EXCEPT ![t] = Instance(id)]
    /\ UNCHANGED <<cacheVars, ptsVars, overlay, now, ex, files, storage, runs,
                   watched, exhist>>

(***************************************************************************)
(* QuadTree.generateHtmlExport (lines 290-308).                            *)
(***************************************************************************)
\* line 291; line 292 then calls getGeneratorWithCache(self.id)
HtmlStart(t) ==
    /\ CanExport(t)
    /\ runs' = runs + 1
    /\ ex' = [ex EXCEPT ![t] = ExportBegins(t, "html")]
    /\ pc' = [pc EXCEPT ![t] = "html_getGenerator"]
    /\ UNCHANGED <<quadTrees, imageDatas, cachedGeneratorG, loc, observed, hist,
                   ptsVars, overlay, now, mem, files, storage, watched, exhist>>

\* (variant: the metadata document is not written)
HtmlArchiveWithoutMeta(t) ==
    /\ pc[t] = "html_archive"
    /\ LET htmlExportName == getExportName(overlay) \o "-" \o ex[t].imgSize
                                \o "-html_" \o strftime(now)
       IN ex' = [ex EXCEPT
                   ![t].timestamp = strftime(now),
                   ![t].archive = <<[rootDir |-> htmlExportName,
                                     run |-> ex[t].run,
                                     entries |-> <<[tilesOf |-> ex[t].gen.quadTreeId],
                                                   "view.html">>]>>,
                   ![t].log = @ \o <<"tiles-written", "html-written", "archived">>]
    /\ pc' = [pc EXCEPT ![t] = "html_attach"]
    /\ UNCHANGED <<quadTrees, imageDatas, cachedGeneratorG, loc, observed, hist,
                   ptsVars, overlay, now, mem, files, storage, runs, watched,
                   exhist>>

\* lines 293-305: the clock is read and the export named; the generator
\* writes the tiles into the archive, then the viewer page and the metadata
\* document are written into it
HtmlArchive(t) ==
    /\ pc[t] = "html_archive"
    /\ LET htmlExportName == getExportName(overlay) \o "-" \o ex[t].imgSize
                                \o "-html_" \o strftime(now)
       IN ex' = [ex EXCEPT
                   ![t].timestamp = strftime(now),
                   ![t].archive = <<[rootDir |-> htmlExportName,
                                     run |-> ex[t].run,
                                     entries |-> <<[tilesOf |-> ex[t].gen.quadTreeId],
                                                   "view.html", "meta.json">>]>>,
                   ![t].log = @ \o <<"tiles-written", "html-written",
                                     "meta-written", "archived">>]
    /\ pc' = [pc EXCEPT ![t] = "html_attach"]
    /\ UNCHANGED <<quadTrees, imageDatas, cachedGeneratorG, loc, observed, hist,
                   ptsVars, overlay, now, mem, files, storage, runs, watched,
                   exhist>>

\* (variant: the name leaves the size class out)
HtmlAttachWithoutSizeClass(t) ==
    /\ pc[t] = "html_attach"
    /\ FieldFileSave(t, "html",
          getExportName(overlay) \o "-html_" \o ex[t].timestamp \o ".tar.gz",
          ex[t].archive[1])
    /\ ExportReturns(t)
    /\ UNCHANGED <<imageDatas, cachedGeneratorG, loc, observed, hist, ptsVars,
                   overlay, now, files, runs, watched>>

\* lines 306-308
HtmlAttach(t) ==
    /\ pc[t] = "html_attach"
    /\ FieldFileSave(t, "html",
          ex[t].archive[1].rootDir \o ".tar.gz", ex[t].archive[1])
    /\ ExportReturns(t)
    /\ UNCHANGED <<imageDatas, cachedGeneratorG, loc, observed, hist, ptsVars,
                   overlay, now, files, runs, watched>>

(***************************************************************************)
(* QuadTree.generateGeotiffExport (lines 311-348).                         *)
(***************************************************************************)
\* an export method raises before it has assigned anything but locals
RaisesOnEntry(t, kind, error) ==
    /\ UNCHANGED <<pc, ex>>
    /\ exhist' = IF t # watched THEN exhist
                 ELSE LET entry == [kind |-> kind, id |-> mem[t].id,
                                    status |-> "raised", error |-> error,
                                    log |-> <<>>,
                                    before |-> mem[t], after |-> mem[t],
                                    mkdirRet |-> 0]
                      IN IF exhist = <<>> THEN <<entry>>
                         ELSE <<exhist[Len(exhist)], entry>>

\* lines 323-327: the image center mapped forward through the overlay's
\* transform, in degrees
CenterOf(o) ==
    LET imageWidth == o.extras.imageSize[1]
        imageHeight == o.extras.imageSize[2]
        tform == makeTransform(o.extras.transform)
        center_meters == tformForward(tform,
                            <<imageWidth \div 2, imageHeight \div 2>>)
    IN metersToLatLon(center_meters)

\* (variant: the export goes from the center straight to the reprojection)
GeotiffStartWithoutFit(t) ==
    /\ CanExport(t)
    /\ runs' = runs + 1
    /\ IF overlay.alignedQuadTree = mem[t].id
       THEN /\ ex' = [ex EXCEPT ![t] =
                  [ExportBegins(t, "geotiff") EXCEPT
                      !.timestamp = strftime(now),
                      !.center = CenterOf(overlay),
                      !.log = <<"center-resolved">>]]
            /\ pc' = [pc EXCEPT ![t] = "geotiff_reproject"]
            /\ UNCHANGED exhist
       ELSE RaisesOnEntry(t, "geotiff", "DoesNotExist")
    /\ UNCHANGED <<quadTrees, imageDatas, cachedGeneratorG, loc, observed, hist,
                   ptsVars, overlay, now, mem, files, storage, watched>>

\* (variant: the center is mapped through the transform the QuadTree was
\* created with)
GeotiffStartOwnTransform(t) ==
    /\ CanExport(t)
    /\ runs' = runs + 1
    /\ IF overlay.alignedQuadTree = mem[t].id
       THEN /\ ex' = [ex EXCEPT ![t] =
                  [ExportBegins(t, "geotiff") EXCEPT
                      !.timestamp = strftime(now),
                      !.center = CenterOf([overlay EXCEPT
                                     !.extras.transform = loads(mem[t].transform)]),
                      !.log = <<"center-resolved">>]]
            /\ pc' = [pc EXCEPT ![t] = "geotiff_fit"]
            /\ UNCHANGED exhist
       ELSE RaisesOnEntry(t, "geotiff", "DoesNotExist")
    /\ UNCHANGED <<quadTrees, imageDatas, cachedGeneratorG, loc, observed, hist,
                   ptsVars, overlay, now, mem, files, storage, watched>>

\* lines 315-327: the size class and the timestamp, the Overlay whose
\* alignedQuadTree is self (Overlay.DoesNotExist when there is none), the
\* center
GeotiffStart(t) ==
    /\ CanExport(t)
    /\ runs' = runs + 1
    /\ IF overlay.alignedQuadTree = mem[t].id
       THEN /\ ex' = [ex EXCEPT ![t] =
                  [ExportBegins(t, "geotiff") EXCEPT
                      !.timestamp = strftime(now),
                      !.center = CenterOf(overlay),
                      !.log = <<"center-resolved">>]]
            /\ pc' = [pc EXCEPT ![t] = "geotiff_fit"]
            /\ UNCHANGED exhist
       ELSE RaisesOnEntry(t, "geotiff", "DoesNotExist")
    /\ UNCHANGED <<quadTrees, imageDatas, cachedGeneratorG, loc, observed, hist,
                   ptsVars, overlay, now, mem, files, storage, watched>>

\* lines 329-331: rpcModel.fitRpcToModel samples self.reversePts and fits;
\* an exception of reversePts or of the fit leaves the export
GeotiffFit(t) ==
    /\ pc[t] = "geotiff_fit"
    /\ LET clon == ex[t].center[1]
           clat == ex[t].center[2]
           sample == reversePts(mem[t].transform, <<(<<clon, clat, 0>>)>>)
       IN \E fitted \in BOOLEAN :
            IF sample.kind = "raise"
            THEN ExportRaises(t, sample.exc.type)
            ELSE IF ~fitted
            THEN ExportRaises(t, "RpcFitError")
            ELSE /\ ex' = [ex EXCEPT
                        ![t].T_rpc = [type |-> "RpcModel", run |-> ex[t].run,
                                      center |-> ex[t].center,
                                      sample |-> sample.value],
                        ![t].log = Append(@, "rpc-fit")]
                 /\ pc' = [pc EXCEPT ![t] = "geotiff_reproject"]
                 /\ UNCHANGED exhist
    /\ UNCHANGED <<quadTrees, imageDatas, cachedGeneratorG, loc, observed, hist,
                   ptsVars, overlay, now, mem, files, storage, runs, watched>>

\* lines 66-71: dosys runs the command, logs a warning when it exits
\* non-zero and returns os.system's status (the exit code in the high byte)
dosys(exit) == exit * 256

\* mkdir exits 1 when the folder exists; it can exit 1 for a folder that does
\* not exist too (no permission, no space), and then makes nothing
MkdirExits(path) == IF path \in DOMAIN files THEN {1} ELSE {0, 1}

\* the export directory after mkdir path exited with exit
Mkdir(path, exit) ==
    IF exit = 0 THEN (path :> [type |-> "dir"]) @@ files ELSE files

\* (variant: the artifact name is recorded on the instance before the
\* reprojection runs)
GeotiffReprojectNamingFirst(t) ==
    /\ pc[t] = "geotiff_reproject"
    /\ LET geotiffExportName == getExportName(overlay) \o "-" \o ex[t].imgSize
                                   \o "-geotiff_" \o ex[t].timestamp
           geotiffFolderPath == ExportPath(geotiffExportName)
           fullFilePath == geotiffFolderPath \o "/" \o geotiffExportName \o ".tif"
           named == [mem EXCEPT ![t].geotiffExportName =
                                    geotiffExportName \o ".tar.gz"]
       IN \E exit \in MkdirExits(geotiffFolderPath), reprojected \in BOOLEAN :
            LET made == Mkdir(geotiffFolderPath, exit)
            IN IF reprojected /\ geotiffFolderPath \in DOMAIN made
               THEN /\ files' = ((fullFilePath :>
                                   [type |-> "file", run |-> ex[t].run,
                                    vrt |-> getVrtMetadata(ex[t].T_rpc)])
                                 @@ made)
                    /\ mem' = named
                    /\ ex' = [ex EXCEPT ![t].log = Append(@, "reprojected"),
                                        ![t].mkdirRet = dosys(exit)]
                    /\ pc' = [pc EXCEPT ![t] = "geotiff_archive"]
                    /\ UNCHANGED exhist
               ELSE /\ files' = made
                    /\ mem' = named
                    /\ ExportRaises(t, "ReprojectionError")
    /\ UNCHANGED <<quadTrees, imageDatas, cachedGeneratorG, loc, observed, hist,
                   ptsVars, overlay, now, storage, runs, watched>>

\* lines 334-341: the export folder is made (line 338 drops what dosys
\* returns), the raw image is reprojected into the folder with the metadata
\* of T_rpc; the reprojection cannot write into a folder that is not there
GeotiffReproject(t) ==
    /\ pc[t] = "geotiff_reproject"
    /\ LET geotiffExportName == getExportName(overlay) \o "-" \o ex[t].imgSize
                                   \o "-geotiff_" \o ex[t].timestamp
           geotiffFolderPath == ExportPath(geotiffExportName)
           fullFilePath == geotiffFolderPath \o "/" \o geotiffExportName \o ".tif"
       IN \E exit \in MkdirExits(geotiffFolderPath), reprojected \in BOOLEAN :
            LET made == Mkdir(geotiffFolderPath, exit)
            IN IF reprojected /\ geotiffFolderPath \in DOMAIN made
               THEN /\ files' = ((fullFilePath :>
                                   [type |-> "file", run |-> ex[t].run,
                                    vrt |-> getVrtMetadata(ex[t].T_rpc)])
                                 @@ made)
                    /\ ex' = [ex EXCEPT ![t].log = Append(@, "reprojected"),
                                        ![t].mkdirRet = dosys(exit)]
                    /\ pc' = [pc EXCEPT ![t] = "geotiff_archive"]
                    /\ UNCHANGED exhist
               ELSE /\ files' = made
                    /\ ExportRaises(t, "ReprojectionError")
    /\ UNCHANGED <<quadTrees, imageDatas, cachedGeneratorG, loc, observed, hist,
                   ptsVars, overlay, now, mem, storage, runs, watched>>

\* lines 343-345: the reprojected file is read into the archive
GeotiffArchive(t) ==
    /\ pc[t] = "geotiff_archive"
    /\ LET geotiffExportName == getExportName(overlay) \o "-" \o ex[t].imgSize
                                   \o "-geotiff_" \o ex[t].timestamp
           fullFilePath == ExportPath(geotiffExportName) \o "/"
                              \o geotiffExportName \o ".tif"
       IN ex' = [ex EXCEPT
                   ![t].archive = <<[rootDir |-> geotiffExportName,
                                     run |-> ex[t].run,
                                     entries |-> <<files[fullFilePath]>>]>>,
                   ![t].log = Append(@, "archived")]
    /\ pc' = [pc EXCEPT ![t] = "geotiff_attach"]
    /\ UNCHANGED <<quadTrees, imageDatas, cachedGeneratorG, loc, observed, hist,
                   ptsVars, overlay, now, mem, files, storage, runs, watched,
                   exhist>>

\* lines 346-348
GeotiffAttach(t) ==
    /\ pc[t] = "geotiff_attach"
    /\ FieldFileSave(t, "geotiff",
          ex[t].archive[1].rootDir \o ".tar.gz", ex[t].archive[1])
    /\ ExportReturns(t)
    /\ UNCHANGED <<imageDatas, cachedGeneratorG, loc, observed, hist, ptsVars,
                   overlay, now, files, runs, watched>>

(***************************************************************************)
(* QuadTree.generateKmlExport (lines 351-375).                             *)
(***************************************************************************)
\* (variant: a missing geotiffExportName is read as the text 'None')
KmlLocateWithoutName(t) ==
    /\ CanExport(t)
    /\ runs' = runs + 1
    /\ LET inputFile == IF mem[t].geotiffExportName = NoneStr THEN "None"
                        ELSE StripTarGz(mem[t].geotiffExportName)
       IN /\ ex' = [ex EXCEPT ![t] =
                [ExportBegins(t, "kml") EXCEPT
                    !.timestamp = strftime(now),
                    !.inputFile = ExportPath(inputFile) \o "/" \o inputFile
                                     \o ".tif",
                    !.log = <<"locate-geotiff">>]]
          /\ pc' = [pc EXCEPT ![t] = "kml_retile"]
          /\ UNCHANGED exhist
    /\ UNCHANGED <<quadTrees, imageDatas, cachedGeneratorG, loc, observed, hist,
                   ptsVars, overlay, now, mem, files, storage, watched>>

\* lines 355-364: the size class, the timestamp and the names; the path of
\* the reprojected file from self.geotiffExportName, which is None (and has
\* no replace: AttributeError) until a GeoTIFF export has recorded a name
KmlLocate(t) ==
    /\ CanExport(t)
    /\ runs' = runs + 1
    /\ IF mem[t].geotiffExportName = NoneStr
       THEN RaisesOnEntry(t, "kml", "AttributeError")
       ELSE LET inputFile == StripTarGz(mem[t].geotiffExportName)
            IN /\ ex' = [ex EXCEPT ![t] =
                     [ExportBegins(t, "kml") EXCEPT
                         !.timestamp = strftime(now),
                         !.inputFile = ExportPath(inputFile) \o "/" \o inputFile
                                          \o ".tif",
                         !.log = <<"locate-geotiff">>]]
               /\ pc' = [pc EXCEPT ![t] = "kml_retile"]
               /\ UNCHANGED exhist
    /\ UNCHANGED <<quadTrees, imageDatas, cachedGeneratorG, loc, observed, hist,
                   ptsVars, overlay, now, mem, files, storage, watched>>

\* lines 367-368: gdal2tiles reads the input file and writes the tiles and
\* the kml into the export folder
KmlRetile(t) ==
    /\ pc[t] = "kml_retile"
    /\ LET kmlExportName == getExportName(overlay) \o "-" \o ex[t].imgSize
                               \o "-kml_" \o ex[t].timestamp
           kmlFolderPath == ExportPath(kmlExportName)
       IN IF ex[t].inputFile \notin DOMAIN files
          THEN /\ ExportRaises(t, "GDALOpenError")
               /\ UNCHANGED files
          ELSE \E tiled \in BOOLEAN :
                 IF tiled
                 THEN /\ files' = ((kmlFolderPath :>
                                      [type |-> "dir", run |-> ex[t].run,
                                       tilesOf |-> files[ex[t].inputFile]])
                                   @@ files)
                      /\ ex' = [ex EXCEPT ![t].log = Append(@, "retile")]
                      /\ pc' = [pc EXCEPT ![t] = "kml_archive"]
                      /\ UNCHANGED exhist
                 ELSE /\ ExportRaises(t, "GDAL2TilesError")
                      /\ UNCHANGED files
    /\ UNCHANGED <<quadTrees, imageDatas, cachedGeneratorG, loc, observed, hist,
                   ptsVars, overlay, now, mem, storage, runs, watched>>

\* lines 370-375: the export folder is read into the archive, the archive
\* is attached
KmlAttach(t) ==
    /\ pc[t] = "kml_archive"
    /\ LET kmlExportName == getExportName(overlay) \o "-" \o ex[t].imgSize
                               \o "-kml_" \o ex[t].timestamp
           kml_writer == [rootDir |-> kmlExportName, run |-> ex[t].run,
                          entries |-> <<files[ExportPath(kmlExportName)]>>]
       IN FieldFileSave(t, "kml", kmlExportName \o ".tar.gz", kml_writer)
    /\ ExportReturns(t)
    /\ UNCHANGED <<imageDatas, cachedGeneratorG, loc, observed, hist, ptsVars,
                   overlay, now, files, runs, watched>>

(***************************************************************************)
(* The exports as a system: the clock, the loads and the export steps of   *)
(* the threads interleave.                                                 *)
(***************************************************************************)
\* The image of quadTree 1 cannot be opened, the other images are RGB ones.
ExportImageRow(i) ==
    CHOOSE r \in ImageRows : r.mode = "RGB" /\ (r.readable <=> i # 1)

\* The image is narrower than 1200 pixels, or wider.
ExportWidths == {2000}

InitExport ==
    /\ rpIn = NoCall
    /\ rpOut = NoCall
    /\ sz = NoSizeCalls
    /\ ovCall = NoOverlayCall
    /\ overlay \in {OverlayOfWidth(w) : w \in ExportWidths}
    /\ now = 0
    /\ mem = [t \in Threads |-> None]
    /\ ex = [t \in Threads |-> IdleEx]
    /\ files = <<>>
    /\ storage = <<>>
    /\ runs = 0
    /\ watched = "t1"
    /\ exhist = <<>>
    /\ quadTrees = [i \in QuadTreeIds |-> NewQuadTree(i, InitialTransform(i))]
    /\ imageDatas = [i \in QuadTreeIds |-> ExportImageRow(i)]
    /\ cachedGeneratorG = [n \in Namespaces |-> [hasGen |-> FALSE, gen |-> None]]
    /\ pc = [t \in Threads |-> "idle"]
    /\ loc = [t \in Threads |-> IdleLoc]
    /\ observed = "nobody"
    /\ hist = <<>>

NextExport ==
    \/ Tick
    \/ UpdateAlignment
    \/ \E t \in Threads, id \in QuadTreeIds : LoadQuadTree(t, id)
    \/ \E t \in Threads : HtmlStart(t)
    \/ \E t \in Threads : pc[t] = "html_getGenerator" /\ GwcHit(t, mem[t].id)
    \/ \E t \in Threads : pc[t] = "html_getGenerator" /\ GwcMiss(t, mem[t].id)
    \/ \E t \in Threads : GwcGetGenerator(t)
    \/ \E t \in Threads : GwcStore(t)
    \/ \E t \in Threads : HtmlArchive(t)
    \/ \E t \in Threads : HtmlAttach(t)
    \/ \E t \in Threads : GeotiffStart(t)
    \/ \E t \in Threads : GeotiffFit(t)
    \/ \E t \in Threads : GeotiffReproject(t)
    \/ \E t \in Threads : GeotiffArchive(t)
    \/ \E t \in Threads : GeotiffAttach(t)
    \/ \E t \in Threads : KmlLocate(t)
    \/ \E t \in Threads : KmlRetile(t)
    \/ \E t \in Threads : KmlAttach(t)

SpecExport == InitExport /\ [][NextExport]_vars

(***************************************************************************)
(* QuadTree.getImageSizeType as a function: the export methods call it for *)
(* an overlay whose image has some width.                                  *)
(***************************************************************************)
Widths == {0, 1, 600, 1199, 1200, 1201, 2000, 4000}

\* line 291, 315 or 355: an export method of some kind calls it
CallGetImageSizeType(kind) ==
    /\ Len(sz.calls) < MaxSizeCalls
    /\ sz' = [sz EXCEPT !.calls = Append(@,
                [kind |-> kind,
                 imgSize |-> getImageSizeType(OverlayOfWidth(sz.width))])]
    /\ UNCHANGED <<cacheVars, rpIn, rpOut, ovCall, exportVars>>

InitSize ==
    /\ NoExports
    /\ quadTrees = [i \in QuadTreeIds |-> NewQuadTree(i, InitialTransform(i))]
    /\ imageDatas = [i \in QuadTreeIds |-> ExportImageRow(i)]
    /\ cachedGeneratorG = [n \in Namespaces |-> [hasGen |-> FALSE, gen |-> None]]
    /\ pc = [t \in Threads |-> "idle"]
    /\ loc = [t \in Threads |-> IdleLoc]
    /\ observed = "t1"
    /\ hist = <<>>
    /\ rpIn = NoCall
    /\ rpOut = NoCall
    /\ \E w \in Widths : sz = [width |-> w, calls |-> <<>>]
    /\ ovCall = NoOverlayCall

NextSize == \E kind \in ExportKinds : CallGetImageSizeType(kind)

SpecSize == InitSize /\ [][NextSize]_vars

(***************************************************************************)
(* Overlay.generateUnalignedQuadTree, generateAlignedQuadTree (lines       *)
(* 519-537) and updateAlignment (lines 560-563), called one after another  *)
(* on one Overlay object.                                                  *)
(***************************************************************************)
\* lines 392-396: the foreign keys to QuadTree are null=True; null is 0 here
NoQuadTree == 0

\* An overlay that has no QuadTree yet: its image is ImageData 2, the raw
\* upload (getRawImageData, lines 426-431) is ImageData raw or there is none,
\* and extras holds the given transform or none.
NewOverlay(transform, raw) ==
    [InitialOverlay EXCEPT !.unalignedQuadTree = NoQuadTree,
                           !.alignedQuadTree = NoQuadTree,
                           !.extras.transform = transform]
        @@ [imageData |-> 2, rawImageData |-> raw]

\* What is kept of a finished call: what it returned or raised, the overlay
\* and the number of QuadTree rows it found.
OverlayCall(method, result, error) ==
    [method |-> method, result |-> result, error |-> error,
     before |-> overlay, rows |-> Len(quadTrees)]

\* line 521, 534: qt.save() inserts the row, QuadTree.save (189-191) stamps it
InsertQuadTree(imageData, transform) ==
    Append(quadTrees,
           [NewQuadTree(imageData, transform) EXCEPT !.lastModifiedTime = now])

\* lines 519-526
GenerateUnalignedQuadTree ==
    /\ Len(quadTrees) < MaxGenerated
    /\ LET qt == Len(quadTrees) + 1
       IN /\ quadTrees' = InsertQuadTree(overlay.imageData, "")
          /\ overlay' = [overlay EXCEPT !.unalignedQuadTree = qt]
          /\ ovCall' = OverlayCall("generateUnalignedQuadTree", qt, "")
    /\ UNCHANGED <<imageDatas, cachedGeneratorG, pc, loc, observed, hist,
                   rpIn, rpOut, sz, now, mem, ex, files, storage, runs,
                   watched, exhist>>

\* (variant: the QuadTree is created whether or not there is a transform)
GenerateAlignedQuadTreeUnchecked ==
    /\ Len(quadTrees) < MaxGenerated
    /\ IF overlay.rawImageData = 0
       THEN /\ ovCall' = OverlayCall("generateAlignedQuadTree", NoQuadTree,
                                     "IndexError")
            /\ UNCHANGED <<quadTrees, overlay>>
       ELSE LET qt == Len(quadTrees) + 1
            IN /\ quadTrees' = InsertQuadTree(overlay.rawImageData,
                                              dumps(overlay.extras.transform))
               /\ overlay' = [overlay EXCEPT !.alignedQuadTree = qt]
               /\ ovCall' = OverlayCall("generateAlignedQuadTree", qt, "")
    /\ UNCHANGED <<imageDatas, cachedGeneratorG, pc, loc, observed, hist,
                   rpIn, rpOut, sz, now, mem, ex, files, storage, runs,
                   watched, exhist>>

\* lines 528-537: None when extras has no transform; IndexError from
\* getRawImageData when the overlay has no raw image; otherwise a QuadTree
\* with the encoded transform, which becomes the overlay's alignedQuadTree
GenerateAlignedQuadTree ==
    /\ Len(quadTrees) < MaxGenerated
    /\ IF overlay.extras.transform = NoneStr
       THEN /\ ovCall' = OverlayCall("generateAlignedQuadTree", NoQuadTree, "")
            /\ UNCHANGED <<quadTrees, overlay>>
       ELSE IF overlay.rawImageData = 0
       THEN /\ ovCall' = OverlayCall("generateAlignedQuadTree", NoQuadTree,
                                     "IndexError")
            /\ UNCHANGED <<quadTrees, overlay>>
       ELSE LET qt == Len(quadTrees) + 1
            IN /\ quadTrees' = InsertQuadTree(overlay.rawImageData,
                                              dumps(overlay.extras.transform))
               /\ overlay' = [overlay EXCEPT !.alignedQuadTree = qt]
               /\ ovCall' = OverlayCall("generateAlignedQuadTree", qt, "")
    /\ UNCHANGED <<imageDatas, cachedGeneratorG, pc, loc, observed, hist,
                   rpIn, rpOut, sz, now, mem, ex, files, storage, runs,
                   watched, exhist>>

\* A new overlay, with or without a fitted transform and a raw image; no
\* QuadTree row exists.
InitOverlay ==
    /\ \E transform \in {NoneStr} \cup TransformDicts, raw \in {0, 1} :
          overlay = NewOverlay(transform, raw)
    /\ quadTrees = <<>>
    /\ imageDatas = [i \in QuadTreeIds |-> ExportImageRow(i)]
    /\ cachedGeneratorG = [n \in Namespaces |-> [hasGen |-> FALSE, gen |-> None]]
    /\ pc = [t \in Threads |-> "idle"]
    /\ loc = [t \in Threads |-> IdleLoc]
    /\ observed = "nobody"
    /\ hist = <<>>
    /\ rpIn = NoCall
    /\ rpOut = NoCall
    /\ sz = NoSizeCalls
    /\ ovCall = NoOverlayCall
    /\ now = 0
    /\ mem = [t \in Threads |-> None]
    /\ ex = [t \in Threads |-> IdleEx]
    /\ files = <<>>
    /\ storage = <<>>
    /\ runs = 0
    /\ watched = "nobody"
    /\ exhist = <<>>

NextOverlay ==
    \/ Tick
    \/ UpdateAlignment
    \/ GenerateUnalignedQuadTree
    \/ GenerateAlignedQuadTree

SpecOverlay == InitOverlay /\ [][NextOverlay]_vars

(***************************************************************************)
(* Properties of the generator cache.                                      *)
(***************************************************************************)
Returned(call) == call.outcome = "returned"

\* C1: every completed getGeneratorWithCache call that returns, returns a
\* generator constructed for the requested quadTree id; the held entry is
\* returned (no rebuild) only when its stored key equals the key of the
\* requested id, and a call that returns after a key mismatch has rebuilt.
C1_ReturnsGeneratorOfRequestedId ==
    \A i \in DOMAIN hist :
        Returned(hist[i]) =>
            /\ hist[i].result.type # "NoneType"
            /\ hist[i].result.quadTreeId = hist[i].quadTreeId
            /\ (~hist[i].built =>
                    hist[i].heldKey = getGeneratorCacheKey(hist[i].quadTreeId))
            /\ (hist[i].heldKey # getGeneratorCacheKey(hist[i].quadTreeId) =>
                    hist[i].built /\ hist[i].fetched)

\* C1 witness: a hit is followed by a call for another id that found the
\* other entry held and rebuilt.
C1_Witness ==
    /\ Len(hist) = 2
    /\ Returned(hist[1]) /\ ~hist[1].built
    /\ Returned(hist[2]) /\ hist[2].built
    /\ hist[2].heldKey = getGeneratorCacheKey(hist[1].quadTreeId)
    /\ hist[2].quadTreeId # hist[1].quadTreeId

\* C2: in one thread, when a call for A returns and the next call is for A
\* again, it returns the same generator instance without fetching the row or
\* constructing a generator; when calls for A, then B, then A return one
\* after another, the B call rebuilt (so A was evicted: the second A call
\* finds B's key held) and the second A call constructs a new generator,
\* another instance than the first.
C2_SameThenEvict ==
    [][ (hist' # hist /\ Len(hist') = 2
            /\ Returned(hist'[1]) /\ Returned(hist'[2])) =>
          /\ (hist'[1].quadTreeId = hist'[2].quadTreeId =>
                 /\ hist'[2].result = hist'[1].result
                 /\ ~hist'[2].fetched /\ ~hist'[2].built)
          /\ (Len(hist) = 2 /\ Returned(hist[1])
                 /\ hist[1].quadTreeId # hist[2].quadTreeId
                 /\ hist'[2].quadTreeId = hist[1].quadTreeId =>
                 /\ hist[2].built
                 /\ hist'[2].heldKey = getGeneratorCacheKey(hist[2].quadTreeId)
                 /\ hist'[2].fetched /\ hist'[2].built
                 /\ hist'[2].result.addr # hist[1].result.addr) ]_vars

\* C2 witness: A, then A again answered from the cache.
C2_Witness ==
    /\ Len(hist) = 2
    /\ Returned(hist[1]) /\ hist[1].built
    /\ Returned(hist[2]) /\ ~hist[2].built
    /\ hist[2].quadTreeId = hist[1].quadTreeId
    /\ hist[2].result = hist[1].result

\* The generators a thread can reach: its cache entry and its locals.
ReachableGenerators(t) ==
    {g \in {GetGenAttr(t).value, loc[t].result, loc[t].cachedGeneratorCopy.value} :
        g.type # "NoneType"}

C3_OwnGeneratorsOnly ==
    /\ \A t \in Threads : \A g \in ReachableGenerators(t) : g.builder = t
    /\ \A i \in DOMAIN hist :
          Returned(hist[i]) => hist[i].result.builder = observed

C3_OwnSlotOnly ==
    \A u \in Threads :
        cachedGeneratorG'[ThreadLocal(u)] # cachedGeneratorG[ThreadLocal(u)] =>
            /\ pc[u] = "gwc_store" /\ pc'[u] = "idle"
            /\ cachedGeneratorG'[ThreadLocal(u)].gen.value = loc[u].result

\* C3: under every interleaving, the cache slot a thread reads and writes is
\* changed only by that thread's own store, and every generator a thread
\* holds or is handed was constructed by that thread.
C3_NoCrossContextLeak == []C3_OwnGeneratorsOnly /\ [][C3_OwnSlotOnly]_vars

\* C3 witness: both threads hold an entry, for different quadTrees, while
\* one of them is in the middle of a miss.
C3_Witness ==
    /\ \A t \in Threads : cachedGeneratorG[ThreadLocal(t)].hasGen
    /\ \E t, u \in Threads :
          /\ t # u
          /\ GetGenAttr(t).key # GetGenAttr(u).key
          /\ pc[u] = "gwc_store"

(***************************************************************************)
(* Properties of reversePts.                                               *)
(***************************************************************************)
\* The pixel the transform's reverse mapping gives for column i of toPts,
\* altitude discarded.
ReverseOfColumn(i) ==
    tformReverse(makeTransform(loads(rpIn.transform)),
                 lonLatToMeters(<<rpIn.toPts[i][1], rpIn.toPts[i][2]>>))

Undefined(i) == ReverseOfColumn(i).raised

\* C5: for every 3 x N world-point matrix, N >= 0, on which the reverse
\* mapping is defined, reversePts returns a pixel matrix with exactly N
\* columns, column i being the reverse mapping of the projection of
\* (lon, lat) of input column i; for N = 0 that is a matrix with no columns.
C5_ReturnsNColumnsInOrder ==
    (/\ rpOut.called
     /\ rpIn.transform # ""
     /\ \A i \in DOMAIN rpIn.toPts : ~Undefined(i)) =>
        /\ rpOut.outcome.kind = "return"
        /\ rpOut.outcome.value.type = "ndarray"
        /\ Len(rpOut.outcome.value.columns) = Len(rpIn.toPts)
        /\ \A i \in DOMAIN rpIn.toPts :
              rpOut.outcome.value.columns[i] = ReverseOfColumn(i).value

\* C6 (as claimed): when the reverse mapping is undefined for some column,
\* reversePts raises a domain error that carries the index of the first such
\* column, and returns no matrix.
C6_DomainErrorTaggedWithColumn ==
    (/\ rpOut.called
     /\ rpIn.transform # ""
     /\ \E i \in DOMAIN rpIn.toPts : Undefined(i)) =>
        /\ rpOut.outcome.kind = "raise"
        /\ rpOut.outcome.exc.type = "DomainError"
        /\ "column" \in DOMAIN rpOut.outcome.exc
        /\ \E i \in DOMAIN rpIn.toPts :
              /\ Undefined(i)
              /\ \A j \in 1..(i - 1) : ~Undefined(j)
              /\ rpOut.outcome.exc.column = i

\* C6 (amended): when the reverse mapping is undefined for some column,
\* reversePts raises exactly the error that the reverse mapping raised for
\* the first such column (no column index added) and returns no matrix; a
\* matrix is returned only when every column is defined, and then no column
\* holds a substituted value.
C6_DomainErrorPropagatesUnchanged ==
    (rpOut.called /\ rpIn.transform # "") =>
        /\ (\E i \in DOMAIN rpIn.toPts : Undefined(i)) =>
              /\ rpOut.outcome.kind = "raise"
              /\ \E i \in DOMAIN rpIn.toPts :
                    /\ Undefined(i)
                    /\ \A j \in 1..(i - 1) : ~Undefined(j)
                    /\ rpOut.outcome.exc = ReverseOfColumn(i).exc
        /\ (rpOut.outcome.kind = "return" /\ rpOut.outcome.value.type = "ndarray") =>
              \A i \in DOMAIN rpOut.outcome.value.columns :
                  /\ ~Undefined(i)
                  /\ rpOut.outcome.value.columns[i] = ReverseOfColumn(i).value

\* C6 witness: the call raised on the second column, after a defined first.
C6_Witness ==
    /\ rpOut.called
    /\ rpIn.transform # ""
    /\ Len(rpIn.toPts) = 2
    /\ ~Undefined(1) /\ Undefined(2)
    /\ rpOut.outcome.kind = "raise"

(***************************************************************************)
(* Properties of the exports.                                              *)
(***************************************************************************)
Entries == {exhist[i] : i \in 1..Len(exhist)}

Steps(log) == {log[i] : i \in 1..Len(log)}

IsPrefix(s, r) == Len(s) <= Len(r) /\ \A i \in 1..Len(s) : s[i] = r[i]

\* thread t takes the step
Acts(t) == pc'[t] # pc[t] \/ ex'[t] # ex[t] \/ mem'[t] # mem[t]

\* the watched thread has just finished an export: the entry recorded for it
Finishes(e) == exhist' # exhist /\ e = exhist'[Len(exhist')]

\* C4: a KML export on a QuadTree that has no GeoTIFF artifact name raises
\* (AttributeError, at the line that locates the GeoTIFF file) before any
\* tiling step: no thread is ever inside a KML export without a recorded
\* GeoTIFF name, the failed call leaves kmlExportName and kmlExport of the
\* instance as they were, and it writes no row, no stored archive, no file.
C4_NoKmlStepWithoutGeotiff ==
    \A t \in Threads :
        ex[t].kind = "kml" => mem[t].geotiffExportName # NoneStr

C4_FailedKmlRecorded ==
    \A e \in Entries :
        (e.kind = "kml" /\ e.before.geotiffExportName = NoneStr)
        => /\ e.status = "raised"
           /\ e.error = "AttributeError"
           /\ "retile" \notin Steps(e.log)
           /\ e.after.kmlExportName = e.before.kmlExportName
           /\ e.after.kmlExport = e.before.kmlExport

C4_FailedKmlWritesNothing ==
    \A e \in {exhist'[i] : i \in 1..Len(exhist')} :
        (Finishes(e) /\ e.kind = "kml" /\ e.before.geotiffExportName = NoneStr)
        => /\ quadTrees' = quadTrees
           /\ storage' = storage
           /\ files' = files
           /\ mem' = mem

GeotiffOrder ==
    <<"center-resolved", "rpc-fit", "reprojected", "archived", "attached">>

C7_LogInOrder ==
    /\ \A t \in Threads :
          ex[t].kind = "geotiff" => IsPrefix(ex[t].log, GeotiffOrder)
    /\ \A e \in Entries :
          e.kind = "geotiff"
          => /\ IsPrefix(e.log, GeotiffOrder)
             /\ (e.status = "attached" <=> e.log = GeotiffOrder)

C7_ReprojectAfterFit ==
    \A t \in Threads :
        (ex[t].kind = "geotiff" /\ Acts(t) /\ files' # files)
        => /\ ex[t].log = SubSeq(GeotiffOrder, 1, 2)
           /\ ex[t].T_rpc.type = "RpcModel"
           /\ ex[t].T_rpc.run = ex[t].run
           /\ \A p \in DOMAIN files' :
                (files'[p].type = "file"
                   /\ (p \notin DOMAIN files \/ files'[p] # files[p]))
                => files'[p].vrt = getVrtMetadata(ex[t].T_rpc)

C7_AttachAfterArchive ==
    \A t \in Threads :
        (/\ ex[t].kind = "geotiff"
         /\ Acts(t)
         /\ \/ mem'[t].geotiffExportName # mem[t].geotiffExportName
            \/ mem'[t].geotiffExport # mem[t].geotiffExport
            \/ quadTrees'[mem[t].id] # quadTrees[mem[t].id])
        => /\ ex[t].log = SubSeq(GeotiffOrder, 1, 4)
           /\ ex[t].archive # <<>>

C7_GeotiffStepOrder ==
    /\ []C7_LogInOrder
    /\ [][C7_ReprojectAfterFit /\ C7_AttachAfterArchive]_vars

C7_Witness ==
    \E e \in Entries :
        /\ e.kind = "geotiff"
        /\ e.status = "attached"
        /\ e.after.geotiffExport # NoneStr

\* C8: an export of one kind changes, on the instance it runs on, only that
\* kind's artifact name and file: in every step of every sequence of exports
\* the instance keeps its transform, its image and the names and files of
\* the other two kinds, and the row written from an instance that is current
\* for a field of another kind keeps that field.
OwnFields(kind) ==
    IF kind \in ExportKinds THEN {NameField(kind), FileField(kind)} ELSE {}

ArtifactFields == UNION {OwnFields(k) : k \in ExportKinds}

KeptFields(kind) ==
    {"transform", "imageData"} \cup (ArtifactFields \ OwnFields(kind))

C8_InstanceKeepsOtherKinds ==
    \A t \in Threads :
        mem[t] # None
        => /\ mem'[t] # None
           /\ mem'[t].id = mem[t].id
           /\ \A f \in KeptFields(ex[t].kind) : mem'[t][f] = mem[t][f]

C8_RowKeepsOtherKinds ==
    \A t \in Threads :
        (mem[t] # None /\ Acts(t))
        => /\ \A id \in DOMAIN quadTrees \ {mem[t].id} :
                quadTrees'[id] = quadTrees[id]
           /\ \A f \in KeptFields(ex[t].kind) :
                mem[t][f] = quadTrees[mem[t].id][f]
                => quadTrees'[mem[t].id][f] = quadTrees[mem[t].id][f]

EarlierNames(id, kind) ==
    {storage[p].name : p \in {q \in DOMAIN storage :
                                 /\ storage[q].quadTree = id
                                 /\ storage[q].kind = kind}}

C9_NewNameEachRun ==
    \A t \in Threads :
        (ex[t].kind \in ExportKinds /\ Acts(t) /\ storage' # storage)
        => mem'[t][NameField(ex[t].kind)] \notin EarlierNames(mem[t].id, ex[t].kind)

C9_NothingOverwritten ==
    /\ \A p \in DOMAIN storage : p \in DOMAIN storage' /\ storage'[p] = storage[p]
    /\ \A p \in DOMAIN files :
          /\ p \in DOMAIN files'
          /\ (files[p].type = "file" => files'[p] = files[p])

C9_RerunNeverReusesNameNorOverwrites ==
    [][C9_NewNameEachRun /\ C9_NothingOverwritten]_vars

\* C10: a GeoTIFF export that fails attaches nothing and touches no other
\* reference: every step of a GeoTIFF export but the attaching one leaves the
\* instance, the rows and the stored archives as they are, so does the call
\* that raises; and the HTML export that the same thread runs next on the
\* same QuadTree attaches its archive (its image being readable), with the
\* geotiff and kml fields as they were before the failed attempt.
C10_GeotiffWritesAtAttachOnly ==
    \A t \in Threads :
        (ex[t].kind = "geotiff" /\ Acts(t) /\ pc[t] # "geotiff_attach")
        => /\ mem'[t] = mem[t]
           /\ quadTrees' = quadTrees
           /\ storage' = storage

C10_FailedGeotiffLeavesInstance ==
    \A e \in Entries :
        (e.kind = "geotiff" /\ e.status = "raised") => e.after = e.before

C10_HtmlAfterFailedGeotiff ==
    (/\ Len(exhist) = 2
     /\ exhist[1].kind = "geotiff"
     /\ exhist[1].status = "raised"
     /\ exhist[2].kind = "html")
    => IF imageDatas[exhist[2].before.imageData].readable
       THEN /\ exhist[2].status = "attached"
            /\ exhist[2].after.htmlExport # NoneStr
            /\ exhist[2].after.htmlExportName # NoneStr
            /\ \A f \in OwnFields("geotiff") \cup OwnFields("kml") :
                  exhist[2].after[f] = exhist[1].before[f]
       ELSE exhist[2].error = "IOError"

C10_FailedGeotiffWritesNothing ==
    \A e \in {exhist'[i] : i \in 1..Len(exhist')} :
        (Finishes(e) /\ e.kind = "geotiff" /\ e.status = "raised")
        => /\ quadTrees' = quadTrees
           /\ storage' = storage
           /\ mem' = mem

ExternalFailures == {"RpcFitError", "ReprojectionError", "GDAL2TilesError"}

C11_RaisingStepAborts ==
    \A e \in Entries :
        (e.status = "raised" /\ e.error \in ExternalFailures)
        => /\ "attached" \notin Steps(e.log)
           /\ \A f \in OwnFields(e.kind) : e.after[f] = e.before[f]

C11_FailedMkdirAborts ==
    /\ \A t \in Threads :
          ex[t].mkdirRet # 0 => "reprojected" \notin Steps(ex[t].log)
    /\ \A e \in Entries :
          e.mkdirRet # 0
          => /\ e.status = "raised"
             /\ "reprojected" \notin Steps(e.log)

C11_FailedExternalStepAborts ==
    C11_RaisingStepAborts /\ C11_FailedMkdirAborts

\* C12: the image a generator is built on is in RGBA mode, whatever the mode
\* of the stored image was: every generator that getGenerator returned or
\* that a cache slot holds has an RGBA image.
GeneratorsBuilt ==
    {loc[t].result : t \in Threads}
        \cup {cachedGeneratorG[n].gen.value :
                 n \in {k \in Namespaces : cachedGeneratorG[k].hasGen}}

C12_GeneratorImageIsRgba ==
    \A g \in GeneratorsBuilt : g # None => g.image.mode = "RGBA"

\* C13: over the getImage calls on a stored image the conversion and the
\* write of the converted image happen at most once: a call on an image that
\* is not RGBA leaves the stored image RGBA, a call on a stored RGBA image
\* converts nothing and writes nothing.
C13_WrittenAtMostOnce ==
    \A i \in DOMAIN imageDatas :
        /\ imageDatas[i].writes <= 1
        /\ imageDatas[i].writes = 1 => imageDatas[i].mode = "RGBA"

C13_CallLeavesRgba ==
    \A t \in Threads :
        (pc[t] = "gwc_getGenerator" /\ pc'[t] = "gwc_store")
        => LET i == quadTrees[loc[t].q].imageData
           IN /\ imageDatas'[i].mode = "RGBA"
              /\ imageDatas[i].mode = "RGBA" => imageDatas'[i] = imageDatas[i]
              /\ imageDatas[i].mode # "RGBA"
                    => imageDatas'[i].writes = imageDatas[i].writes + 1

C14_SizeClassByWidth ==
    \A i \in 1..Len(sz.calls) :
        /\ sz.width < 1200 => sz.calls[i].imgSize = "small"
        /\ sz.width >= 1200 => sz.calls[i].imgSize = "large"
        /\ \A j \in 1..Len(sz.calls) : sz.calls[j].imgSize = sz.calls[i].imgSize

C14_Witness ==
    /\ sz.width = 1200
    /\ Len(sz.calls) = 2
    /\ sz.calls[1].kind # sz.calls[2].kind
    /\ sz.calls[2].imgSize = "large"

\* C15: every artifact name recorded on a QuadTree, on an instance or in a
\* row, reads <export-name>-<size-class>-<kind>_<UTC timestamp>.tar.gz with
\* the kind of the field that holds it, the size class of the overlay's image
\* width and a time of the clock; the name an export records carries the
\* timestamp that export took, which is the clock's time when it took it.
NameStamped(kind, timestamp) ==
    getExportName(overlay) \o "-"
        \o (IF overlay.extras.imageSize[1] < 1200 THEN "small" ELSE "large")
        \o "-" \o kind \o "_" \o timestamp \o ".tar.gz"

ExpectedName(kind, seconds) == NameStamped(kind, strftime(seconds))

C15_RecordedNamesWellFormed ==
    \A k \in ExportKinds :
        /\ \A t \in Threads :
              (mem[t] # None /\ mem[t][NameField(k)] # NoneStr)
              => \E s \in 0..now : mem[t][NameField(k)] = ExpectedName(k, s)
        /\ \A id \in DOMAIN quadTrees :
              quadTrees[id][NameField(k)] # NoneStr
              => \E s \in 0..now : quadTrees[id][NameField(k)] = ExpectedName(k, s)

C15_NameCarriesExportTime ==
    \A t \in Threads :
        /\ (ex'[t].timestamp # ex[t].timestamp /\ ex'[t].timestamp # "")
           => ex'[t].timestamp = strftime(now)
        /\ (ex[t].kind \in ExportKinds /\ Acts(t) /\ storage' # storage)
           => /\ mem'[t][NameField(ex[t].kind)]
                    = NameStamped(ex[t].kind, ex[t].timestamp)
              /\ quadTrees'[mem[t].id][NameField(ex[t].kind)]
                    = NameStamped(ex[t].kind, ex[t].timestamp)

C16_CenterFromOverlayNow ==
    \A t \in Threads :
        (ex[t].kind = "none" /\ ex'[t].kind = "geotiff")
        => LET tform == makeTransform(overlay.extras.transform)
               half == <<overlay.extras.imageSize[1] \div 2,
                         overlay.extras.imageSize[2] \div 2>>
           IN ex'[t].center = metersToLatLon(tformForward(tform, half))

C16_CenterUsesCurrentTransform == [][C16_CenterFromOverlayNow]_vars

\* a second GeoTIFF export has started after the refit
C16_Witness ==
    \E t \in Threads :
        /\ mem[t] # None
        /\ mem[t].geotiffExport # NoneStr
        /\ overlay.extras.transform = RefitTransform
        /\ ex[t].kind = "geotiff"
        /\ ex[t].center # CenterOf(InitialOverlay)
        /\ ex[t].center = CenterOf([InitialOverlay EXCEPT
                                      !.extras.transform = RefitTransform])

\* C17: a thread's slot holds one entry, a key with a value; after a miss
\* for id q that returned, the key is the key of q and the value is the
\* generator built for q, the entry held before is gone, and the slot keeps
\* the entry of the most recent call that returned.
KeyOf(quadTreeId) == "geocamTiePoint.QuadTreeGenerator." \o ToString(quadTreeId)

LastReturned ==
    IF Returned(hist[Len(hist)]) THEN hist[Len(hist)] ELSE hist[1]

C17_SlotHoldsOneEntry ==
    \A n \in Namespaces :
        cachedGeneratorG[n].hasGen
        => /\ DOMAIN cachedGeneratorG[n].gen = {"key", "value"}
           /\ cachedGeneratorG[n].gen.key
                 = KeyOf(cachedGeneratorG[n].gen.value.quadTreeId)

C17_SlotReflectsLastReturned ==
    (hist # <<>> /\ Returned(LastReturned))
    => /\ cachedGeneratorG[observed].hasGen
       /\ cachedGeneratorG[observed].gen.key = KeyOf(LastReturned.quadTreeId)
       /\ cachedGeneratorG[observed].gen.value = LastReturned.result

C17_MissReplacesEntry ==
    \A t \in Threads :
        (pc[t] = "gwc_store" /\ pc'[t] # "gwc_store")
        => /\ cachedGeneratorG'[t].gen.key = KeyOf(loc[t].quadTreeId)
           /\ cachedGeneratorG'[t].gen.key # GetGenAttr(t).key
           /\ cachedGeneratorG[t].hasGen
                 => /\ cachedGeneratorG'[t].gen.value.addr
                          # cachedGeneratorG[t].gen.value.addr
                    /\ cachedGeneratorG[t].gen.value \notin
                          {cachedGeneratorG'[n].gen.value :
                             n \in {k \in Namespaces : cachedGeneratorG'[k].hasGen}}

C17_SingleEntrySlot ==
    /\ [](C17_SlotHoldsOneEntry /\ C17_SlotReflectsLastReturned)
    /\ [][C17_MissReplacesEntry]_vars

C17_Witness ==
    /\ Len(hist) = 2
    /\ Returned(hist[1]) /\ hist[1].built
    /\ Returned(hist[2]) /\ hist[2].built
    /\ hist[1].quadTreeId # hist[2].quadTreeId
    /\ cachedGeneratorG[observed].gen.key = KeyOf(hist[2].quadTreeId)

\* C18: an HTML export gets its generator from the cache, writes the tiles,
\* then view.html, then meta.json into one archive, and sets htmlExportName
\* and htmlExport only after that; every stored HTML archive holds the tiles
\* of its QuadTree, view.html and meta.json.
HtmlOrder ==
    <<"generator-acquired", "tiles-written", "html-written", "meta-written",
      "archived", "attached">>

HtmlEntries(id) == <<[tilesOf |-> id], "view.html", "meta.json">>

C18_HtmlLogInOrder ==
    /\ \A t \in Threads :
          ex[t].kind = "html"
          => /\ IsPrefix(ex[t].log, HtmlOrder)
             /\ ex[t].log # <<>>
                   => /\ cachedGeneratorG[t].hasGen
                      /\ ex[t].gen = cachedGeneratorG[t].gen.value
                      /\ ex[t].gen.quadTreeId = mem[t].id
    /\ \A e \in Entries :
          e.kind = "html"
          => /\ IsPrefix(e.log, HtmlOrder)
             /\ (e.status = "attached" <=> e.log = HtmlOrder)

C18_StoredHtmlComplete ==
    \A p \in DOMAIN storage :
        storage[p].kind = "html"
        => storage[p].content.entries = HtmlEntries(storage[p].quadTree)

C18_AttachAfterThreeWritten ==
    \A t \in Threads :
        (/\ ex[t].kind = "html"
         /\ Acts(t)
         /\ \/ mem'[t].htmlExportName # mem[t].htmlExportName
            \/ mem'[t].htmlExport # mem[t].htmlExport
            \/ quadTrees'[mem[t].id] # quadTrees[mem[t].id])
        => /\ ex[t].log = SubSeq(HtmlOrder, 1, 5)
           /\ ex[t].archive[1].entries = HtmlEntries(mem[t].id)

C18_HtmlStepOrder ==
    /\ [](C18_HtmlLogInOrder /\ C18_StoredHtmlComplete)
    /\ [][C18_AttachAfterThreeWritten]_vars

C18_Witness ==
    \E e \in Entries :
        /\ e.kind = "html"
        /\ e.status = "attached"
        /\ e.after.htmlExport \in DOMAIN storage

\* C19: a KML export reads the raster whose path is derived from the
\* geotiffExportName its QuadTree instance holds when the export starts, the
\* name the latest GeoTIFF export on that instance recorded, and tiles that
\* file; a KML archive is stored for a QuadTree only after a GeoTIFF archive
\* was stored for it.
RasterPathOf(name) ==
    LET base == SubSeq(name, 1, Len(name) - 7)
    IN "/data/geocamTiePoint/export/" \o base \o "/" \o base \o ".tif"

C19_InputFromRecordedName ==
    \A t \in Threads :
        (ex[t].kind = "none" /\ ex'[t].kind = "kml")
        => /\ mem[t].geotiffExportName # NoneStr
           /\ mem[t].geotiffExportName
                 = SubSeq(mem[t].geotiffExportName, 1,
                          Len(mem[t].geotiffExportName) - 7) \o ".tar.gz"
           /\ ex'[t].inputFile = RasterPathOf(mem[t].geotiffExportName)

C19_TilesThatRaster ==
    \A t \in Threads :
        (ex[t].kind = "kml" /\ Acts(t) /\ files' # files)
        => /\ ex[t].inputFile = RasterPathOf(mem[t].geotiffExportName)
           /\ ex[t].inputFile \in DOMAIN files
           /\ \A p \in DOMAIN files' :
                 (p \notin DOMAIN files \/ files'[p] # files[p])
                 => files'[p].tilesOf = files[ex[t].inputFile]

C19_NameIsLatestExport ==
    (exhist # <<>> /\ mem[watched] # None)
    => LET e == exhist[Len(exhist)]
       IN /\ e.after = mem[watched]
          /\ (e.kind = "geotiff" /\ e.status = "attached")
                => /\ e.after.geotiffExport \in DOMAIN storage
                   /\ storage[e.after.geotiffExport].name
                         = mem[watched].geotiffExportName
                   /\ storage[e.after.geotiffExport].kind = "geotiff"
                   /\ storage[e.after.geotiffExport].quadTree = mem[watched].id

C19_KmlAfterGeotiff ==
    \A p \in DOMAIN storage :
        storage[p].kind = "kml"
        => \E q \in DOMAIN storage :
              /\ storage[q].kind = "geotiff"
              /\ storage[q].quadTree = storage[p].quadTree
              /\ storage[q].content.run < storage[p].content.run

C20_VariantOf(g) ==
    LET q == quadTrees[g.quadTreeId]
    IN /\ g.quadTreeId \in DOMAIN quadTrees
       /\ g.type \in {"WarpedQuadTreeGenerator", "SimpleQuadTreeGenerator"}
       /\ (g.type = "WarpedQuadTreeGenerator" <=> q.transform # "")
       /\ (g.type = "SimpleQuadTreeGenerator" <=> q.transform = "")
       /\ q.transform = "" => g.transform = ""
       /\ q.transform # "" => q.transform = dumps(g.transform)

C20_GeneratorsMatchTransform ==
    /\ \A g \in GeneratorsBuilt : g # None => C20_VariantOf(g)
    /\ \A i \in 1..Len(hist) :
          Returned(hist[i])
          => /\ C20_VariantOf(hist[i].result)
             /\ hist[i].result.quadTreeId = hist[i].quadTreeId

C20_BuiltOnOwnImage ==
    \A t \in Threads :
        (pc[t] = "gwc_getGenerator" /\ pc'[t] = "gwc_store")
        => LET row == imageDatas[quadTrees[loc[t].q].imageData]
           IN /\ loc'[t].result.quadTreeId = loc[t].q
              /\ loc'[t].result.image.mode = row.mode
              /\ loc'[t].result.image.source = row.name

C20_GeneratorVariant ==
    /\ []C20_GeneratorsMatchTransform
    /\ [][C20_BuiltOnOwnImage]_vars

C20_Witness ==
    /\ Len(hist) = 2
    /\ Returned(hist[1]) /\ Returned(hist[2])
    /\ quadTrees[hist[1].quadTreeId].transform = ""
    /\ hist[1].result.type = "SimpleQuadTreeGenerator"
    /\ quadTrees[hist[2].quadTreeId].transform # ""
    /\ hist[2].result.type = "WarpedQuadTreeGenerator"

\* C21: two threads that each hold their own copy of one QuadTree and run
\* exports of different kinds leave, once both are done, a row that
\* references both artifacts: the save that attaches one kind's artifact
\* leaves the other kinds' names and files of the row as they are, and when
\* every thread is idle the row holds a name and a file for every kind of
\* which some thread's copy of it holds a name.
C21_AttachKeepsOtherKindsOnRow ==
    \A t \in Threads :
        (ex[t].kind \in ExportKinds /\ Acts(t) /\ storage' # storage)
        => \A f \in ArtifactFields \ OwnFields(ex[t].kind) :
              quadTrees'[mem[t].id][f] = quadTrees[mem[t].id][f]

C21_RowReferencesAttached ==
    (\A t \in Threads : pc[t] = "idle")
    => \A t \in Threads, k \in ExportKinds :
          (mem[t] # None /\ mem[t][NameField(k)] # NoneStr)
          => /\ quadTrees[mem[t].id][NameField(k)] # NoneStr
             /\ quadTrees[mem[t].id][FileField(k)] # NoneStr

C21_ConcurrentExportsKeepBoth ==
    /\ []C21_RowReferencesAttached
    /\ [][C21_AttachKeepsOtherKindsOnRow]_vars

\* C22: within one GeoTIFF export the center that seeds the RPC fit and the
\* sampling function reversePts come from the same transform parameters,
\* also after the overlay's transform was fitted again: the center the
\* export resolved, and the center of the model it fitted, is the image
\* center mapped forward through the transform reversePts decodes from the
\* QuadTree the export runs on.
C22_CenterUnder(t) ==
    CenterOf([overlay EXCEPT !.extras.transform = loads(mem[t].transform)])

C22_CenterAndSamplerShareTransform ==
    \A t \in Threads :
        (ex[t].kind = "geotiff" /\ ex[t].T_rpc # None)
        => /\ ex[t].center = C22_CenterUnder(t)
           /\ ex[t].T_rpc.center = C22_CenterUnder(t)

\* C23: a getGeneratorWithCache call that fails on a miss (Http404 for a
\* QuadTree that does not exist, IOError from opening the image) leaves the
\* thread's slot as it was: while the call is between lookup and store the
\* slot holds what the call read, the failing step changes no slot, and a
\* following request for the id of the entry held before the failed call is
\* a hit that returns the instance still held.
Failed(call) == call.outcome \in {"Http404", "IOError"}

C23_SlotAsReadDuringMiss ==
    \A t \in Threads :
        pc[t] = "gwc_getGenerator" => GetGenAttr(t) = loc[t].cachedGeneratorCopy

C23_HitAfterFailedCall ==
    (/\ Len(hist) = 2
     /\ Failed(hist[1])
     /\ hist[1].heldKey # NoneStr
     /\ KeyOf(hist[2].quadTreeId) = hist[1].heldKey)
    => /\ Returned(hist[2])
       /\ ~hist[2].fetched /\ ~hist[2].built
       /\ hist[2].result = GetGenAttr(observed).value
       /\ hist[2].result.quadTreeId = hist[2].quadTreeId

C23_FailingStepLeavesSlot ==
    (hist' # hist /\ Failed(hist'[Len(hist')]))
    => /\ cachedGeneratorG' = cachedGeneratorG
       /\ hist'[Len(hist')].heldKey = GetGenAttr(observed).key

C23_FailedMissKeepsEntry ==
    /\ [](C23_SlotAsReadDuringMiss /\ C23_HitAfterFailedCall)
    /\ [][C23_FailingStepLeavesSlot]_vars

C23_Witness ==
    /\ Len(hist) = 2
    /\ hist[1].outcome = "IOError"
    /\ hist[1].heldKey # NoneStr
    /\ KeyOf(hist[2].quadTreeId) = hist[1].heldKey
    /\ Returned(hist[2]) /\ ~hist[2].built
    /\ hist[2].result = GetGenAttr(observed).value

\* C24: after any sequence of generateUnalignedQuadTree, updateAlignment and
\* generateAlignedQuadTree calls the overlay's unaligned QuadTree, if set,
\* has an empty transform and its aligned QuadTree, if set, has a transform
\* that is not empty and is the encoding of the transform the overlay held
\* when the QuadTree was created (no later call changes the transform of a
\* row); generateAlignedQuadTree on an overlay without a transform returns
\* None, creates no row and leaves alignedQuadTree as it was.
C24_UnalignedHasNoTransform ==
    overlay.unalignedQuadTree # NoQuadTree
    => /\ overlay.unalignedQuadTree \in DOMAIN quadTrees
       /\ quadTrees[overlay.unalignedQuadTree].transform = ""

C24_AlignedHasTransform ==
    overlay.alignedQuadTree # NoQuadTree
    => /\ overlay.alignedQuadTree \in DOMAIN quadTrees
       /\ quadTrees[overlay.alignedQuadTree].transform # ""
       /\ loads(quadTrees[overlay.alignedQuadTree].transform) # NoneStr

C24_LastCallAsTransformSays ==
    ovCall.method = "generateAlignedQuadTree"
    => IF ovCall.before.extras.transform = NoneStr
       THEN /\ ovCall.result = NoQuadTree
            /\ ovCall.error = ""
            /\ Len(quadTrees) = ovCall.rows
            /\ overlay.alignedQuadTree = ovCall.before.alignedQuadTree
       ELSE ovCall.result # NoQuadTree
            => /\ overlay.alignedQuadTree = ovCall.result
               /\ quadTrees[ovCall.result].transform
                     = dumps(ovCall.before.extras.transform)

C24_AlignedCreatedFromCurrent ==
    overlay'.alignedQuadTree # overlay.alignedQuadTree
    => /\ overlay.extras.transform # NoneStr
       /\ overlay'.alignedQuadTree = Len(quadTrees) + 1
       /\ Len(quadTrees') = Len(quadTrees) + 1
       /\ quadTrees'[overlay'.alignedQuadTree].transform
             = dumps(overlay.extras.transform)
       /\ loads(quadTrees'[overlay'.alignedQuadTree].transform)
             = overlay.extras.transform

C24_RowsKeepTransform ==
    \A id \in DOMAIN quadTrees :
        /\ id \in DOMAIN quadTrees'
        /\ quadTrees'[id].transform = quadTrees[id].transform

C24_QuadTreesMatchAlignment ==
    /\ [](C24_UnalignedHasNoTransform /\ C24_AlignedHasTransform
            /\ C24_LastCallAsTransformSays)
    /\ [][C24_AlignedCreatedFromCurrent /\ C24_RowsKeepTransform]_vars

C24_Witness ==
    /\ overlay.unalignedQuadTree # NoQuadTree
    /\ overlay.alignedQuadTree # NoQuadTree
    /\ quadTrees[overlay.unalignedQuadTree].transform = ""
    /\ quadTrees[overlay.alignedQuadTree].transform = dumps("T1")
    /\ overlay.extras.transform = RefitTransform
    /\ ovCall.method = "generateAlignedQuadTree"
    /\ ovCall.before.extras.transform = "T1"

====
